---- MODULE Spec2Model ----
(***************************************************************************)
(* Model of dog.py: the pet-camera monitoring loop.                        *)
(*                                                                         *)
(* One process, blocking calls.  The state is the process configuration    *)
(* read at import time, the program counter, the locals of main() and, as  *)
(* observation variables, the number of requests issued to each of the     *)
(* three external endpoints during the current call of main().             *)
(* The python value None is written "None".                                *)
(***************************************************************************)
EXTENDS Integers, Sequences, FiniteSets, TLC

VARIABLES
    PUSHOVER_API_TOKEN,  \* os.getenv('PUSHOVER_API_TOKEN'): "None", "" or a token
    PUSHOVER_USER_KEY,   \* os.getenv('PUSHOVER_USER_KEY')
    ENV,                 \* os.getenv('ENV'), read at the alert test
    argv,                \* <<>> when -i is absent, <<n>> for "-i n"
    interval,            \* args.interval after parse_args()
    continuous,          \* TRUE once continuous_monitoring() has been entered
    pc,                  \* position of the single thread
    cycle,               \* number of calls of main() so far
    sleeps,              \* number of time.sleep() calls that returned
    image_data,          \* local of main(): "unset", "None" or "jpeg"
    analysis,            \* local of main(): the model's message content
    result,              \* local of main(): json.loads(analysis) plus timestamp
    camGets,             \* requests.get(CAMERA_URL) issued in this call of main()
    modelReqs,           \* openai.chat.completions.create issued in this call
    notifySteps,         \* send_pushover_alert calls in this call of main()
    posts,               \* requests.post(pushover) issued in this call of main()
    payload,             \* the form data of the last POST of this call
    postStatus,          \* how that POST ended
    uncaught,            \* the exception that left the program, if any
    interruptAt,         \* the step during which KeyboardInterrupt was delivered
    atInterrupt,         \* <<cycle, camGets, modelReqs, posts>> at that moment
    prevOutcome,         \* how the previous call of main() ended
    streak,              \* consecutive finished cycles whose record reported danger/obstruction
    streakNotifs         \* notification steps run in those cycles

vars == <<PUSHOVER_API_TOKEN, PUSHOVER_USER_KEY, ENV, argv, interval, continuous,
          pc, cycle, sleeps, image_data, analysis, result, camGets, modelReqs,
          notifySteps, posts, payload, postStatus, uncaught, interruptAt,
          atInterrupt, prevOutcome, streak, streakNotifs>>

config == <<PUSHOVER_API_TOKEN, PUSHOVER_USER_KEY, ENV, argv>>
locals == <<image_data, analysis, result>>
counters == <<camGets, modelReqs, notifySteps, posts>>
ghosts == <<prevOutcome, streak, streakNotifs>>

----
\* Bounds of the model.
MaxCycles == 3

\* Program constants.
DefaultInterval == 5
SecondsPerMinute == 60

----
\* Values the environment can supply.
CredValues == {"None", "", "tok"}
EnvValues == {"None", "dev", "prod"}
IntervalArgs == {-1, 0, 1}
ArgvChoices == {<<>>} \cup {<<n>> : n \in IntervalArgs}

\* JSON values a field of the model's object can hold ("absent": no such key).
FieldVals == {"absent", "true", "false", "str", "zero"}

\* Python truthiness of a field value as result.get(key) returns it.
Truthy(v) == v \in {"true", "str"}

\* Python truthiness of an environment string (None and "" are falsy).
Set(s) == s \notin {"None", ""}

\* Exception classes.
RequestExceptions == {"ConnectionError", "HTTPError"}
ModelExceptions == {"APIError", "IndexError"}
ExceptionSubclasses ==
    RequestExceptions \cup ModelExceptions \cup {"JSONDecodeError", "TypeError", "ValueError"}
KeyboardInterrupt == "KeyboardInterrupt"

NoExc == [type |-> "None", at |-> "None"]
NoAnalysis == [kind |-> "unset", isDanger |-> "absent", isViewObstructed |-> "absent"]
NoResult == [type |-> "unset", isDanger |-> "absent", isViewObstructed |-> "absent", timestamp |-> 0]
NoPayload == [token |-> "None", user |-> "None", title |-> "None", message |-> NoResult]

\* What response.choices[0].message.content can be.
Content(kind, d, o) == [kind |-> kind, isDanger |-> d, isViewObstructed |-> o]
Contents ==
    {Content(k, "absent", "absent") : k \in {"None", "empty", "invalid", "array", "scalar"}}
    \cup {Content("object", d, o) : d \in FieldVals, o \in FieldVals}

----
\* Mutants of the except clauses: a bare "except:" in analyze_image_with_gpt,
\* and "except KeyError" in place of "except json.JSONDecodeError" in main().
AnalyzeCatchesAll(e) == e \in ExceptionSubclasses \cup {KeyboardInterrupt}
ParseCatchesKeyError(e) == e = "KeyError"

\* The except clauses.
CaptureCatches(e) == e \in RequestExceptions
AnalyzeCatches(e) == e \in ExceptionSubclasses
ParseCatches(e) == e = "JSONDecodeError"
PushoverCatches(e) == e \in RequestExceptions
LoopCatches(e) == e = KeyboardInterrupt

\* if analysis:
AnalysisTruthy(a) == a.kind \notin {"None", "empty"}

\* json.loads(analysis): the exception it raises, or "ok".
JsonLoadsRaises(a) == IF a.kind = "invalid" THEN "JSONDecodeError" ELSE "ok"

\* json.loads(analysis): the python value.
JsonLoads(a) ==
    [type |-> CASE a.kind = "object" -> "dict"
                [] a.kind = "array" -> "list"
                [] OTHER -> "scalar",
     isDanger |-> a.isDanger,
     isViewObstructed |-> a.isViewObstructed,
     timestamp |-> 0]

\* result['timestamp'] = ...: only a dict supports item assignment by key.
SetItemRaises(r) == IF r.type = "dict" THEN "ok" ELSE "TypeError"

\* Mutants of the alert test: the development switch inverted into "not prod",
\* the obstruction disjunct dropped, and an alert suppressed after an alert.
ShouldNotifyUnlessProd(r, env) ==
    Truthy(r.isViewObstructed) \/ Truthy(r.isDanger) \/ env # "prod"
ShouldNotifyDangerOnly(r, env) ==
    Truthy(r.isDanger) \/ env = "dev"
ShouldNotifyDedup(r, env) ==
    (Truthy(r.isViewObstructed) \/ Truthy(r.isDanger) \/ env = "dev")
    /\ prevOutcome # "alerted"

\* The alert test.
ShouldNotify(r, env) ==
    Truthy(r.isViewObstructed) \/ Truthy(r.isDanger) \/ env = "dev"

\* Mutant of the credentials test: "and" in place of "or".
CredentialsMissingBoth(token, user) == ~Set(token) /\ ~Set(user)

\* not PUSHOVER_API_TOKEN or not PUSHOVER_USER_KEY
CredentialsMissing(token, user) == ~Set(token) \/ ~Set(user)

\* Where control goes when main() returns.
ReturnFromMain == IF continuous THEN "sleep" ELSE "exited"

\* An exception leaves main(): the loop's handler, or the interpreter.
Escapes(e, site) ==
    IF continuous /\ LoopCatches(e)
    THEN pc' = "stopped" /\ uncaught' = NoExc
    ELSE pc' = "crashed" /\ uncaught' = [type |-> e, at |-> site]

\* Observation of a delivered KeyboardInterrupt.
Delivered(e, site) ==
    IF e = KeyboardInterrupt
    THEN /\ interruptAt' = site
         /\ atInterrupt' = <<cycle, camGets', modelReqs', posts'>>
    ELSE UNCHANGED <<interruptAt, atInterrupt>>

\* How the call of main() whose locals are in the state ended.
CycleOutcome ==
    CASE image_data = "None" -> "camfail"
      [] image_data = "jpeg" /\ ~AnalysisTruthy(analysis) -> "modelfail"
      [] image_data = "jpeg" /\ AnalysisTruthy(analysis) /\ result.type # "dict" -> "parsefail"
      [] result.type = "dict" /\ notifySteps > 0 -> "alerted"
      [] OTHER -> "quiet"

\* The record reports danger or obstruction.
Reports(r) == r.type = "dict" /\ (r.isDanger = "true" \/ r.isViewObstructed = "true")

----
Init ==
    /\ PUSHOVER_API_TOKEN \in CredValues
    /\ PUSHOVER_USER_KEY \in CredValues
    /\ ENV \in EnvValues
    /\ argv \in ArgvChoices
    /\ interval = 0
    /\ continuous = FALSE
    /\ pc = "start"
    /\ cycle = 0
    /\ sleeps = 0
    /\ image_data = "unset"
    /\ analysis = NoAnalysis
    /\ result = NoResult
    /\ camGets = 0 /\ modelReqs = 0 /\ notifySteps = 0 /\ posts = 0
    /\ payload = NoPayload
    /\ postStatus = "None"
    /\ uncaught = NoExc
    /\ interruptAt = "None"
    /\ atInterrupt = <<0, 0, 0, 0>>
    /\ prevOutcome = "none"
    /\ streak = 0
    /\ streakNotifs = 0

\* __main__: parse_args() and the choice between the loop and a single run.
ParseArgs ==
    /\ pc = "start"
    /\ interval' = IF argv = <<>> THEN DefaultInterval ELSE argv[1]
    /\ pc' = IF interval' # 0 THEN "cm_enter" ELSE "main"
    /\ UNCHANGED <<config, continuous, cycle, sleeps, locals, counters, payload,
                   postStatus, uncaught, interruptAt, atInterrupt, ghosts>>

\* continuous_monitoring: the two prints before the try, then the loop is entered.
ContinuousStart ==
    /\ pc = "cm_enter"
    /\ continuous' = TRUE
    /\ \E out \in {"ok", KeyboardInterrupt} :
        /\ IF out = "ok"
           THEN pc' = "main" /\ uncaught' = uncaught
           ELSE pc' = "crashed" /\ uncaught' = [type |-> out, at |-> "cm_enter"]
        /\ UNCHANGED counters
        /\ Delivered(out, "cm_enter")
    /\ UNCHANGED <<config, interval, cycle, sleeps, locals, payload, postStatus, ghosts>>

\* main() is called: fresh locals.
MainEntry ==
    /\ pc = "main"
    /\ cycle < MaxCycles
    /\ cycle' = cycle + 1
    /\ pc' = "capture"
    /\ image_data' = "unset"
    /\ analysis' = NoAnalysis
    /\ result' = NoResult
    /\ camGets' = 0 /\ modelReqs' = 0 /\ notifySteps' = 0 /\ posts' = 0
    /\ payload' = NoPayload
    /\ postStatus' = "None"
    /\ prevOutcome' = IF cycle = 0 THEN "none" ELSE CycleOutcome
    /\ streak' = IF Reports(result) THEN streak + 1 ELSE 0
    /\ streakNotifs' = IF Reports(result) THEN streakNotifs + notifySteps ELSE 0
    /\ UNCHANGED <<config, interval, continuous, sleeps, uncaught, interruptAt, atInterrupt>>

\* Mutant of capture_image: a failed GET is tried again at once.
CaptureImageRetry ==
    /\ pc = "capture"
    /\ camGets' = camGets + 1
    /\ UNCHANGED <<modelReqs, notifySteps, posts>>
    /\ \E out \in {"ok"} \cup RequestExceptions \cup {KeyboardInterrupt} :
        /\ Delivered(out, "capture")
        /\ IF out = "ok"
           THEN image_data' = "jpeg" /\ pc' = "analyze" /\ uncaught' = uncaught
           ELSE IF CaptureCatches(out)
           THEN image_data' = "None" /\ pc' = "capture" /\ uncaught' = uncaught
           ELSE image_data' = image_data /\ Escapes(out, "capture")
    /\ UNCHANGED <<config, interval, continuous, cycle, sleeps, analysis, result,
                   payload, postStatus, ghosts>>

\* capture_image() and the test of its result in main().
CaptureImage ==
    /\ pc = "capture"
    /\ camGets' = camGets + 1
    /\ UNCHANGED <<modelReqs, notifySteps, posts>>
    /\ \E out \in {"ok"} \cup RequestExceptions \cup {KeyboardInterrupt} :
        /\ Delivered(out, "capture")
        /\ IF out = "ok"
           THEN image_data' = "jpeg" /\ pc' = "analyze" /\ uncaught' = uncaught
           ELSE IF CaptureCatches(out)
           THEN image_data' = "None" /\ pc' = ReturnFromMain /\ uncaught' = uncaught
           ELSE image_data' = image_data /\ Escapes(out, "capture")
    /\ UNCHANGED <<config, interval, continuous, cycle, sleeps, analysis, result,
                   payload, postStatus, ghosts>>

\* analyze_image_with_gpt() and the test of its result in main().
AnalyzeImage ==
    /\ pc = "analyze"
    /\ modelReqs' = modelReqs + 1
    /\ UNCHANGED <<camGets, notifySteps, posts>>
    /\ \/ \E c \in Contents :
            /\ analysis' = c
            /\ pc' = IF AnalysisTruthy(c) THEN "parse" ELSE ReturnFromMain
            /\ uncaught' = uncaught
            /\ UNCHANGED <<interruptAt, atInterrupt>>
       \/ \E e \in ModelExceptions \cup {KeyboardInterrupt} :
            /\ Delivered(e, "analyze")
            /\ IF AnalyzeCatches(e)
               THEN /\ analysis' = Content("None", "absent", "absent")
                    /\ pc' = ReturnFromMain
                    /\ uncaught' = uncaught
               ELSE analysis' = analysis /\ Escapes(e, "analyze")
    /\ UNCHANGED <<config, interval, continuous, cycle, sleeps, image_data, result,
                   payload, postStatus, ghosts>>

\* An exception raised inside the try block of main().
InTry(e, site) ==
    IF ParseCatches(e)
    THEN pc' = ReturnFromMain /\ uncaught' = uncaught
    ELSE Escapes(e, site)

\* main(): json.loads(analysis) and result['timestamp'] = now.
ParseResponse ==
    /\ pc = "parse"
    /\ UNCHANGED counters
    /\ \E out \in {"ok", KeyboardInterrupt} :
        /\ Delivered(out, "parse")
        /\ IF out # "ok"
           THEN result' = result /\ InTry(out, "parse")
           ELSE IF JsonLoadsRaises(analysis) # "ok"
           THEN result' = result /\ InTry(JsonLoadsRaises(analysis), "parse")
           ELSE IF SetItemRaises(JsonLoads(analysis)) # "ok"
           THEN /\ result' = JsonLoads(analysis)
                /\ InTry(SetItemRaises(JsonLoads(analysis)), "parse")
           ELSE /\ result' = [JsonLoads(analysis) EXCEPT !.timestamp = cycle]
                /\ pc' = "alert"
                /\ uncaught' = uncaught
    /\ UNCHANGED <<config, interval, continuous, cycle, sleeps, image_data, analysis,
                   payload, postStatus, ghosts>>

\* main(): the prints of the results and the alert test.
CheckAlerts ==
    /\ pc = "alert"
    /\ UNCHANGED <<camGets, modelReqs, posts>>
    /\ \E out \in {"ok", KeyboardInterrupt} :
        /\ Delivered(out, "alert")
        /\ IF out # "ok"
           THEN notifySteps' = notifySteps /\ InTry(out, "alert")
           ELSE IF ShouldNotify(result, ENV)
           THEN notifySteps' = notifySteps + 1 /\ pc' = "notify" /\ uncaught' = uncaught
           ELSE notifySteps' = notifySteps /\ pc' = ReturnFromMain /\ uncaught' = uncaught
    /\ UNCHANGED <<config, interval, continuous, cycle, sleeps, locals,
                   payload, postStatus, ghosts>>

\* send_pushover_alert(alert_message), called inside the try block of main().
SendPushoverAlert ==
    /\ pc = "notify"
    /\ UNCHANGED <<camGets, modelReqs, notifySteps>>
    /\ IF CredentialsMissing(PUSHOVER_API_TOKEN, PUSHOVER_USER_KEY)
       THEN /\ UNCHANGED <<posts, payload, postStatus>>
            /\ \E out \in {"ok", KeyboardInterrupt} :
                /\ Delivered(out, "notify")
                /\ IF out = "ok"
                   THEN pc' = ReturnFromMain /\ uncaught' = uncaught
                   ELSE InTry(out, "notify")
       ELSE /\ posts' = posts + 1
            /\ payload' = [token |-> PUSHOVER_API_TOKEN, user |-> PUSHOVER_USER_KEY,
                           title |-> "Dog Cam Alert", message |-> result]
            /\ \E out \in {"ok"} \cup RequestExceptions \cup {KeyboardInterrupt} :
                /\ postStatus' = out
                /\ Delivered(out, "notify")
                /\ IF out = "ok" \/ PushoverCatches(out)
                   THEN pc' = ReturnFromMain /\ uncaught' = uncaught
                   ELSE InTry(out, "notify")
    /\ UNCHANGED <<config, interval, continuous, cycle, sleeps, locals, ghosts>>

\* time.sleep(seconds): a negative length is refused.
SleepRaises(seconds) == IF seconds < 0 THEN "ValueError" ELSE "ok"

\* Mutant of the loop: the sleep is skipped after a cycle that did not get a record.
SleepAfterSuccessOnly ==
    /\ pc = "sleep"
    /\ UNCHANGED counters
    /\ \E out \in {"ok", KeyboardInterrupt} :
        /\ Delivered(out, "sleep")
        /\ IF out # "ok"
           THEN sleeps' = sleeps /\ Escapes(out, "sleep")
           ELSE IF result.type # "dict"
           THEN sleeps' = sleeps /\ pc' = "main" /\ uncaught' = uncaught
           ELSE IF SleepRaises(interval * SecondsPerMinute) # "ok"
           THEN sleeps' = sleeps /\ Escapes(SleepRaises(interval * SecondsPerMinute), "sleep")
           ELSE sleeps' = sleeps + 1 /\ pc' = "main" /\ uncaught' = uncaught
    /\ UNCHANGED <<config, interval, continuous, cycle, locals, payload, postStatus, ghosts>>

\* continuous_monitoring: the print and time.sleep(interval_minutes * 60).
Sleep ==
    /\ pc = "sleep"
    /\ UNCHANGED counters
    /\ \E out \in {"ok", KeyboardInterrupt} :
        /\ Delivered(out, "sleep")
        /\ IF out # "ok"
           THEN sleeps' = sleeps /\ Escapes(out, "sleep")
           ELSE IF SleepRaises(interval * SecondsPerMinute) # "ok"
           THEN sleeps' = sleeps /\ Escapes(SleepRaises(interval * SecondsPerMinute), "sleep")
           ELSE sleeps' = sleeps + 1 /\ pc' = "main" /\ uncaught' = uncaught
    /\ UNCHANGED <<config, interval, continuous, cycle, locals, payload, postStatus, ghosts>>

Next ==
    \/ ParseArgs
    \/ ContinuousStart
    \/ MainEntry
    \/ CaptureImage
    \/ AnalyzeImage
    \/ ParseResponse
    \/ CheckAlerts
    \/ SendPushoverAlert
    \/ Sleep

Spec == Init /\ [][Next]_vars

----
\* Positions inside a call of main(), and the positions a KeyboardInterrupt
\* can be delivered at inside the try block of continuous_monitoring.
MainSites == {"capture", "analyze", "parse", "alert", "notify"}
LoopSites == MainSites \cup {"sleep"}
Terminal == {"stopped", "crashed", "exited"}
MainReturned == pc \in {"sleep", "exited"}
CredentialsSet == PUSHOVER_API_TOKEN \notin {"None", ""} /\ PUSHOVER_USER_KEY \notin {"None", ""}

\* C1 (as stated): a notification is dispatched only if the parsed record
\* reports danger or obstruction, whatever the environment.  "Reports" is read
\* the way the code tests it, as a truthy isDanger or isViewObstructed.
C1_Original ==
    notifySteps > 0 => (Truthy(result.isDanger) \/ Truthy(result.isViewObstructed))

\* C1 (amended): a notification is dispatched only after a record was parsed
\* and only if its isDanger or isViewObstructed is truthy or ENV is "dev";
\* a POST is issued only inside a notification step.
C1_Amended ==
    /\ notifySteps > 0 =>
          /\ result.type = "dict"
          /\ \/ result.isDanger \in {"true", "str"}
             \/ result.isViewObstructed \in {"true", "str"}
             \/ ENV = "dev"
    /\ posts > 0 => notifySteps > 0

C1_Witness ==
    /\ notifySteps = 1 /\ posts = 1 /\ ENV = "dev"
    /\ result.isDanger = "false" /\ result.isViewObstructed = "false"

\* C2: a cycle that captured the image, got a response and parsed a record
\* whose isDanger or isViewObstructed is true runs the notification step
\* exactly once, after the parse and before main() returns; with both
\* credentials set the step issues exactly one POST carrying that record.
C2_NotifyOnce ==
    /\ notifySteps <= 1
    /\ notifySteps = 1 => (result.type = "dict" /\ result.timestamp = cycle)
    /\ (/\ MainReturned
        /\ image_data = "jpeg"
        /\ analysis.kind = "object"
        /\ (analysis.isDanger = "true" \/ analysis.isViewObstructed = "true"))
       => /\ notifySteps = 1
          /\ CredentialsSet =>
                /\ posts = 1
                /\ payload.message = result
                /\ payload.message.timestamp = cycle
                /\ payload.message.isDanger = analysis.isDanger
                /\ payload.message.isViewObstructed = analysis.isViewObstructed

C2_Witness ==
    /\ pc = "sleep" /\ ENV = "None" /\ CredentialsSet
    /\ analysis.isDanger = "false" /\ analysis.isViewObstructed = "true"
    /\ notifySteps = 1 /\ posts = 1 /\ cycle = 2

\* C3 (as stated): in continuous monitoring no failure raised inside a cycle
\* leaves the cycle; only a user interrupt ends the loop.
C3_NothingFatal ==
    (continuous /\ pc = "crashed") => uncaught.at \notin MainSites

\* C4 (as stated): once continuous monitoring has been selected by an accepted
\* interval, the program stops only when the user interrupts it.
C4_RunsUntilInterrupted ==
    (continuous /\ pc \in Terminal) => interruptAt # "None"

\* C5: in one cycle at most one GET to the camera, at most one request to the
\* model and at most one POST to the notification endpoint are issued.
C5_NoRetry ==
    camGets <= 1 /\ modelReqs <= 1 /\ posts <= 1

C5_Witness ==
    /\ pc = "sleep" /\ cycle = 2 /\ prevOutcome = "camfail"
    /\ camGets = 1 /\ modelReqs = 1 /\ posts = 1 /\ postStatus = "HTTPError"

\* C6: a failed camera fetch is followed by no model call and no notification;
\* a failed or empty model call, or content that is not valid JSON, is followed
\* by no notification; in each case main() returns without raising.
CameraFailed == camGets = 1 /\ image_data = "None"
ModelFailed == modelReqs = 1 /\ analysis.kind \in {"None", "empty"}
NotJson == modelReqs = 1 /\ analysis.kind = "invalid"
C6_FailureAborts ==
    /\ CameraFailed => (modelReqs = 0 /\ pc \notin {"analyze", "parse", "alert", "notify"})
    /\ ModelFailed => pc \notin {"parse", "alert", "notify"}
    /\ NotJson => pc \notin {"alert", "notify"}
    /\ (CameraFailed \/ ModelFailed \/ NotJson) =>
          /\ notifySteps = 0 /\ posts = 0
          /\ uncaught.at \notin MainSites \/ uncaught.type = KeyboardInterrupt

C6_Witness ==
    /\ pc = "sleep" /\ NotJson /\ ENV = "dev" /\ CredentialsSet
    /\ prevOutcome = "modelfail"

\* C7: in a cycle the model request comes after the camera GET has returned
\* image bytes and the POST after the response has been parsed; a cycle of the
\* loop starts only after one sleep per earlier cycle has elapsed.
C7_Order ==
    /\ modelReqs > 0 => (camGets = 1 /\ image_data = "jpeg")
    /\ posts > 0 => (modelReqs = 1 /\ result.type = "dict")
    /\ (continuous /\ pc \in MainSites) => sleeps = cycle - 1

C7_Witness ==
    /\ pc = "notify" /\ cycle = 3 /\ sleeps = 2 /\ prevOutcome = "camfail"

\* C8: with the API token or the user key unset or empty, send_pushover_alert
\* issues no POST and returns normally to main(), which returns as usual.
C8_NoCredentialsNoPost ==
    [][(pc = "notify" /\ ~CredentialsSet /\ interruptAt' = "None")
         => (posts' = 0 /\ payload' = NoPayload /\ uncaught' = NoExc
             /\ pc' = IF continuous THEN "sleep" ELSE "exited")]_vars

C8_Witness ==
    /\ pc = "sleep" /\ notifySteps = 1 /\ posts = 0
    /\ PUSHOVER_API_TOKEN = "tok" /\ PUSHOVER_USER_KEY = ""

\* C9: what a cycle does is a function of its own camera result, its own model
\* response and the process configuration, whatever the previous cycle did;
\* consecutive cycles that each parse a record reporting danger or obstruction
\* each run the notification step once.
ExpectedNotify ==
    /\ image_data = "jpeg"
    /\ analysis.kind = "object"
    /\ \/ analysis.isDanger \in {"true", "str"}
       \/ analysis.isViewObstructed \in {"true", "str"}
       \/ ENV = "dev"
ExpectedCalls ==
    << 1,
       IF image_data = "jpeg" THEN 1 ELSE 0,
       IF ExpectedNotify THEN 1 ELSE 0,
       IF ExpectedNotify /\ CredentialsSet THEN 1 ELSE 0 >>
C9_Stateless ==
    /\ MainReturned => counters = ExpectedCalls
    /\ streakNotifs = streak
    /\ (pc = "sleep" /\ Reports(result)) => streakNotifs + notifySteps = streak + 1

C9_Witness ==
    /\ pc = "sleep" /\ cycle = 3 /\ streak = 2 /\ Reports(result)
    /\ prevOutcome = "alerted" /\ notifySteps = 1 /\ posts = 1

\* C10: in continuous monitoring a KeyboardInterrupt delivered during the
\* camera fetch, the model call, the parse, the alert test, the notification
\* step or the sleep stops the loop: no request is issued after it and
\* continuous_monitoring returns normally.
C10_InterruptStops ==
    (continuous /\ interruptAt \in LoopSites)
       => /\ pc = "stopped"
          /\ uncaught = NoExc
          /\ <<cycle, camGets, modelReqs, posts>> = atInterrupt

C10_Witness ==
    /\ pc = "stopped" /\ interruptAt = "analyze" /\ cycle = 2 /\ modelReqs = 1
====
